---- MODULE Spec2Model ----
(***************************************************************************)
(* Model of the VaR calculator: the statistical functions of App.jsx, the  *)
(* Monte Carlo worker (varWorker.js), and the runCalc orchestration with   *)
(* its request/response round trips.                                       *)
(*                                                                         *)
(* Numbers.  A JavaScript double is modelled as an exact value:            *)
(* the triple <<n, d, r>> standing for (n/d) * sqrt(r); NaN and the        *)
(* infinities have d = 0.  Returns are whole numbers of one return unit.   *)
(***************************************************************************)
EXTENDS Integers, Sequences, FiniteSets, TLC

VARIABLES
  call,       \* the pure function applied and its arguments
  ret,        \* what it returned
  wkInbox,    \* worker: the messages posted to it and not yet handled
  wkOut,      \* worker: the messages it posted back, not yet delivered
  wkLog,      \* worker: each handled message with the outcome of handling it
  cfg,        \* app: the build, the loaded data set, the MC method and K
  mode,       \* app state: "single" or "portfolio"
  singleId,
  portfolioIds,
  weightsById,
  loading,
  progressText,
  summary,
  resultRows,
  lastCalcMode,
  priceSeriesIds,
  run,        \* the activation of runCalc suspended at an await, if any
  net,        \* the fetches in flight
  sweep       \* the (confidence, horizon) pairs the latest runCalc asked for

fnVars == <<call, ret>>
wkVars == <<wkInbox, wkOut, wkLog>>
uiVars == <<mode, singleId, portfolioIds, weightsById>>
outVars == <<loading, progressText, summary, resultRows, lastCalcMode, priceSeriesIds>>
runVars == <<run, net, sweep>>
appVars == <<cfg, uiVars, outVars, runVars>>
vars == <<fnVars, wkVars, appVars>>

None == "none"

\* ------------------------------------------------------------ bounds
MaxLen == 3        \* longest return series / pool
MaxWindow == 3     \* largest estimation window
MaxT == 2          \* longest holding period
MaxPool == 2       \* longest Monte Carlo pool
MaxDf == 5         \* largest dfMax requested
MaxDate == 3       \* latest trading date of a price series
MaxRows == 3       \* most raw rows of an upload

\* ------------------------------------------------------------ numbers
\* A double is the triple <<n, d, r>>: the real (n/d) * sqrt(r), with n/d in
\* lowest terms, d > 0 and r >= 1 squarefree (r = 1: a rational).  The
\* non-finite doubles have d = 0.
NaN == <<0, 0, 0>>
Inf == <<1, 0, 0>>
NegInf == <<-1, 0, 0>>

Abs(x) == IF x < 0 THEN -x ELSE x
Min(a, b) == IF a < b THEN a ELSE b

RECURSIVE GCD(_, _)
GCD(a, b) == IF b = 0 THEN a ELSE GCD(b, a % b)

\* the largest k with k*k dividing n (n >= 1), found factor by factor from f
RECURSIVE SquareRootPart(_, _)
SquareRootPart(n, f) ==
  IF f * f > n THEN 1
  ELSE IF n % (f * f) = 0 THEN f * SquareRootPart(n \div (f * f), f)
  ELSE SquareRootPart(n, f + 1)

LargestSquare(n) == SquareRootPart(n, 2)

\* (n/d) * sqrt(r) in canonical form (d # 0, r >= 0)
Real(n, d, r) ==
  IF n = 0 \/ r = 0 THEN <<0, 1, 1>>
  ELSE LET k == LargestSquare(r)
           nn == n * k
           g == GCD(Abs(nn), Abs(d))
           s == IF d < 0 THEN -1 ELSE 1
       IN <<(s * nn) \div g, (s * d) \div g, r \div (k * k)>>

Num(n) == <<n, 1, 1>>

\* n/d in lowest terms (d # 0)
Rat(n, d) ==
  LET g == GCD(Abs(n), Abs(d))
  IN IF d < 0 THEN <<(-n) \div g, (-d) \div g, 1>> ELSE <<n \div g, d \div g, 1>>
Zero == <<0, 1, 1>>

\* Number.isFinite
IsFinite(v) == v[2] # 0
IsNaN(v) == v = NaN
IsRational(v) == IsFinite(v) /\ v[3] = 1
Sign(v) == IF v[1] > 0 THEN 1 ELSE IF v[1] < 0 THEN -1 ELSE 0

\* x + y and x - y for doubles that are rationals or not finite
FAdd(x, y) ==
  IF IsNaN(x) \/ IsNaN(y) THEN NaN
  ELSE IF ~IsFinite(x) THEN (IF ~IsFinite(y) /\ y # x THEN NaN ELSE x)
  ELSE IF ~IsFinite(y) THEN y
  ELSE Rat(x[1] * y[2] + y[1] * x[2], x[2] * y[2])

FNeg(x) == <<-x[1], x[2], x[3]>>
FSub(x, y) == FAdd(x, FNeg(y))

\* x * y
FMul(x, y) ==
  IF IsNaN(x) \/ IsNaN(y) THEN NaN
  ELSE IF ~IsFinite(x) \/ ~IsFinite(y)
    THEN (IF Sign(x) * Sign(y) = 0 THEN NaN
          ELSE IF Sign(x) * Sign(y) > 0 THEN Inf ELSE NegInf)
  ELSE Real(x[1] * y[1], x[2] * y[2], x[3] * y[3])

\* x / y the way a double divides: 0/0 is NaN, x/0 is infinite
FDiv(x, y) ==
  IF IsNaN(x) \/ IsNaN(y) THEN NaN
  ELSE IF ~IsFinite(x) THEN (IF ~IsFinite(y) THEN NaN
                              ELSE IF Sign(x) * Sign(y) >= 0 THEN Inf ELSE NegInf)
  ELSE IF ~IsFinite(y) THEN Zero
  ELSE IF y[1] = 0 THEN (IF x[1] = 0 THEN NaN
                         ELSE IF x[1] > 0 THEN Inf ELSE NegInf)
  ELSE Real(x[1] * y[2], x[2] * y[1] * y[3], x[3] * y[3])

\* Math.sqrt of a rational or a non-finite double
FSqrt(x) ==
  IF IsNaN(x) THEN NaN
  ELSE IF x = Inf THEN Inf
  ELSE IF x[1] < 0 THEN NaN
  ELSE Real(1, x[2], x[1] * x[2])

\* x < y for rationals
FLess(x, y) == x[1] * y[2] < y[1] * x[2]

\* ------------------------------------------------------------ inputs
ReturnVals == {Num(-1), Num(0), Num(1)}
SeriesVals == ReturnVals \cup {NaN}
ConfChoices == {950, 990}          \* confidence levels, in 1/1000
PoolVals == {Num(-1), Num(0), Num(1)}

\* ------------------------------------------------------------ sequences
SeqsUpTo(S, n) == UNION {[1..k -> S] : k \in 0..n}

\* Array.prototype.filter
Filter(s, P(_)) == SelectSeq(s, P)

\* Array.prototype.slice(-w) on an array of at least w elements: the last w
\* of them; slice(-0) is slice(0), the whole array; and for w < 0 it is
\* slice(|w|), the array without its first |w| elements
SliceLast(h, w) ==
  IF w = 0 THEN h
  ELSE IF w > 0 THEN SubSeq(h, Len(h) - w + 1, Len(h))
  ELSE IF -w >= Len(h) THEN <<>>
  ELSE SubSeq(h, 1 - w, Len(h))

\* arr.reduce((a, b) => a + b, 0)
RECURSIVE SumSeq(_)
SumSeq(s) == IF s = <<>> THEN Zero ELSE FAdd(SumSeq(SubSeq(s, 1, Len(s) - 1)), s[Len(s)])

\* ------------------------------------------------------------ statistics
\* let s = 0; for (const v of arr) { const d = v - m; s += d * d; }
RECURSIVE SumSqDev(_, _)
SumSqDev(s, m) ==
  IF s = <<>> THEN Zero
  ELSE LET d == FSub(s[Len(s)], m)
       IN FAdd(SumSqDev(SubSeq(s, 1, Len(s) - 1), m), FMul(d, d))

\* mean(arr): s / arr.length
mean(arr) == FDiv(SumSeq(arr), Num(Len(arr)))

\* std(arr): Math.sqrt(s / (arr.length - 1))
std(arr) == FSqrt(FDiv(SumSqDev(arr, mean(arr)), Num(Len(arr) - 1)))

\* const sub = hist.length < window ? hist : hist.slice(-window)
RollingWindow(hist, window) ==
  IF Len(hist) < window THEN hist ELSE SliceLast(hist, window)

\* a pool cut from the front of the series: rAll.slice(0, window)
rMC_FirstValues(rAll, window) ==
  IF Len(rAll) > window THEN SubSeq(rAll, 1, window) ELSE rAll

\* const rMC = rAll.length > window ? rAll.slice(-window) : rAll
rMC(rAll, window) == IF Len(rAll) > window THEN SliceLast(rAll, window) ELSE rAll

latestSigmaRolling(logRetArr, window) ==
  LET hist == Filter(logRetArr, IsFinite)
  IN IF Len(hist) < 2 THEN NaN
     ELSE LET sub == RollingWindow(hist, window)
              m == FDiv(SumSeq(sub), Num(Len(sub)))
          IN FSqrt(FDiv(SumSqDev(sub, m), Num(Len(sub) - 1)))

meanStd(arr) ==
  LET a == Filter(arr, IsFinite)
      mu == FDiv(SumSeq(a), Num(Len(a)))
  IN [mu |-> mu, sigma |-> FSqrt(FDiv(SumSqDev(a, mu), Num(Len(a) - 1)))]

\* Moro's approximation.  A confidence is a number of 1/1000.  The central
\* branch is y times a ratio of two polynomials in r = y * y, the tail branch a
\* polynomial in log(-log(r)) with the sign of y; the two polynomial values
\* are tabulated, rounded to 1e-5, at the arguments the confidences of
\* ConfGrid produce.
ConfGrid == {10, 50, 80, 100, 300, 500, 700, 900, 920, 950, 990}

\* (((a[3]*r+a[2])*r+a[1])*r+a[0]) / den at r = yy / 10^6
MoroCentral(yy) ==
  IF yy = 0 THEN Rat(250663, 100000)
  ELSE IF yy = 40000 THEN Rat(262200, 100000)
  ELSE IF yy = 160000 THEN Rat(320388, 100000)
  ELSE NaN

\* c[0] + sum of c[i] * log(-log(r))^i at r = t / 1000
MoroTail(t) ==
  IF t = 10 THEN Rat(232635, 100000)
  ELSE IF t = 50 THEN Rat(164485, 100000)
  ELSE IF t = 80 THEN Rat(140507, 100000)
  ELSE NaN

zFromConf(conf) ==
  IF conf = 950 THEN Rat(1645, 1000)
  ELSE IF conf = 990 THEN Rat(2330, 1000)
  ELSE LET y == conf - 500
       IN IF Abs(y) < 420 THEN FMul(Rat(y, 1000), MoroCentral(y * y))
          ELSE LET x == MoroTail(IF y <= 0 THEN conf ELSE 1000 - conf)
               IN IF y > 0 THEN x ELSE FNeg(x)

\* normalVarSingle refusing a zero volatility as it refuses a non-finite one
normalVarSingle_ZeroSigmaNaN(logRetArr, conf, T, window) ==
  LET z == zFromConf(conf)
      sigma == latestSigmaRolling(logRetArr, window)
  IN IF ~IsFinite(sigma) \/ sigma = Zero THEN [var |-> NaN, sigma |-> sigma, z |-> z]
     ELSE [var |-> FMul(FMul(z, sigma), FSqrt(Num(T))), sigma |-> sigma, z |-> z]

\* normalVarSingle scaling with the horizon instead of its square root
normalVarSingle_LinearT(logRetArr, conf, T, window) ==
  LET z == zFromConf(conf)
      sigma == latestSigmaRolling(logRetArr, window)
  IN IF ~IsFinite(sigma) THEN [var |-> NaN, sigma |-> sigma, z |-> z]
     ELSE [var |-> FMul(FMul(z, sigma), Num(T)), sigma |-> sigma, z |-> z]

normalVarSingle(logRetArr, conf, T, window) ==
  LET z == zFromConf(conf)
      sigma == latestSigmaRolling(logRetArr, window)
  IN IF ~IsFinite(sigma) THEN [var |-> NaN, sigma |-> sigma, z |-> z]
     ELSE [var |-> FMul(FMul(z, sigma), FSqrt(Num(T))), sigma |-> sigma, z |-> z]

\* ------------------------------------------------------------ portfolio
\* A series is a sequence of rows [date, logRet], dates increasing, the first
\* row's logRet NaN (no previous price).  grouped maps each id of the sequence
\* ids (the key order of the object) to its series.

\* the dates of a set, ascending: [...dateKeys].sort((a, b) => a - b)
RECURSIVE SortedDates(_)
SortedDates(S) ==
  IF S = {} THEN <<>>
  ELSE LET lo == CHOOSE x \in S : \A y \in S : x <= y
       IN <<lo>> \o SortedDates(S \ {lo})

DatesOf(series) == {series[i].date : i \in DOMAIN series}
\* m.set(key, r.logRet): a later row of the same date replaces an earlier one
LogRetAt(series, k) ==
  series[CHOOSE i \in DOMAIN series :
           series[i].date = k /\ \A j \in DOMAIN series : j > i => series[j].date # k].logRet
LogRets(series) == [i \in DOMAIN series |-> series[i].logRet]

\* alignedWideReturns with its rows in descending date order
alignedWideReturns_Descending(grouped, ids) ==
  LET dateKeys == {k \in UNION {DatesOf(grouped[ids[i]]) : i \in DOMAIN ids} :
                     \A i \in DOMAIN ids : k \in DatesOf(grouped[ids[i]])}
      alignedKeys == SortedDates(dateKeys)
      n == Len(alignedKeys)
  IN [m \in DOMAIN alignedKeys |->
        [date |-> alignedKeys[n + 1 - m],
         v |-> [id \in {ids[i] : i \in DOMAIN ids} |->
                  LogRetAt(grouped[id], alignedKeys[n + 1 - m])]]]

\* one row per date present in every series, ascending
alignedWideReturns(grouped, ids) ==
  LET dateKeys == {k \in UNION {DatesOf(grouped[ids[i]]) : i \in DOMAIN ids} :
                     \A i \in DOMAIN ids : k \in DatesOf(grouped[ids[i]])}
      alignedKeys == SortedDates(dateKeys)
  IN [n \in DOMAIN alignedKeys |->
        [date |-> alignedKeys[n],
         v |-> [id \in {ids[i] : i \in DOMAIN ids} |-> LogRetAt(grouped[id], alignedKeys[n])]]]

\* wide.filter((row) => ids.every((id) => Number.isFinite(row[id])))
CleanRows(wide, ids) ==
  LET AllFinite(row) == \A i \in DOMAIN ids : IsFinite(row.v[ids[i]])
  IN Filter(wide, AllFinite)

\* cov of columns a and b about their means, divided by n - 1
RECURSIVE SumCross(_, _, _, _)
SumCross(a, b, ma, mb) ==
  IF a = <<>> THEN Zero
  ELSE FAdd(SumCross(SubSeq(a, 1, Len(a) - 1), SubSeq(b, 1, Len(b) - 1), ma, mb),
            FMul(FSub(a[Len(a)], ma), FSub(b[Len(b)], mb)))

corrMatrix(rows, ids) ==
  LET n == Len(rows)
      cols == [i \in DOMAIN ids |-> [k \in DOMAIN rows |-> rows[k].v[ids[i]]]]
      mus == [i \in DOMAIN ids |-> mean(cols[i])]
      sigs == [i \in DOMAIN ids |-> std(cols[i])]
  IN [i \in DOMAIN ids |-> [j \in DOMAIN ids |->
        FDiv(FDiv(SumCross(cols[i], cols[j], mus[i], mus[j]), Num(n - 1)),
             FMul(sigs[i], sigs[j]))]]

\* A sum of doubles with different square-root parts is kept exactly, as the
\* set of its terms, one per square-root part; {NaN} is NaN.
NonFinite(v) == ~IsFinite(v)
CoefSum(terms, r) ==
  SumSeq([i \in DOMAIN terms |->
            IF terms[i][3] = r THEN <<terms[i][1], terms[i][2], 1>> ELSE Zero])
SurdSum(terms) ==
  IF \E i \in DOMAIN terms : ~IsFinite(terms[i])
    THEN {SumSeq(Filter(terms, NonFinite))}
    ELSE {t \in {<<CoefSum(terms, r)[1], CoefSum(terms, r)[2], r>> :
                   r \in {terms[i][3] : i \in DOMAIN terms}} : t[1] # 0}

\* the terms w[i] * w[j] * sigmas[i] * sigmas[j] * corr[i][j], in loop order
SigmaP2Terms(w, sigmas, corr) ==
  LET m == Len(w)
  IN [k \in 1..(m * m) |->
        LET i == ((k - 1) \div m) + 1
            j == ((k - 1) % m) + 1
        IN FMul(FMul(FMul(FMul(w[i], w[j]), sigmas[i]), sigmas[j]), corr[i][j])]

\* The portfolio VaR z * Math.sqrt(sigmaP2) * Math.sqrt(T) is carried as its
\* three factors; NaNVar is the NaN of the early return.
NaNVar == [z |-> NaN, sigmaP2 |-> {NaN}, T |-> 0]
IsNaNVar(v) == IsNaN(v.z) \/ v.sigmaP2 = {NaN} \/ v.sigmaP2 = {NegInf}
               \/ (~IsFinite(v.z) /\ v.sigmaP2 = {})
IsFiniteVar(v) == ~IsNaNVar(v) /\ IsFinite(v.z) /\ v.sigmaP2 # {Inf}

NoWeights == [id \in {} |-> Zero]

normalVarPortfolio(grouped, ids, conf, T, window, weights) ==
  LET m == Len(ids)
      w == [i \in DOMAIN ids |->
              IF ids[i] \in DOMAIN weights THEN weights[ids[i]] ELSE Rat(1, m)]
      sigmas == [i \in DOMAIN ids |-> latestSigmaRolling(LogRets(grouped[ids[i]]), window)]
      wide == CleanRows(alignedWideReturns(grouped, ids), ids)
  IN IF Len(wide) < 2 THEN [var |-> NaNVar, sigmas |-> sigmas, early |-> TRUE]
     ELSE LET corr == corrMatrix(wide, ids)
              sigmaP2 == SurdSum(SigmaP2Terms(w, sigmas, corr))
              z == zFromConf(conf)
          IN [var |-> [z |-> z, sigmaP2 |-> sigmaP2, T |-> T], sigmas |-> sigmas,
              early |-> FALSE, corr |-> corr, sigmaP2 |-> sigmaP2, z |-> z]

\* ------------------------------------------------------------ worker: fit
\* studentTLoglike is transcendental (lgamma, log) and is not evaluated: a
\* table ll gives the log-likelihood of each df (of those the scan does not
\* reach too), and every table over LLVals is considered.
LLVals == {0, 1}
LLTables(dfMin, dfMax) == [dfMin..dfMax -> LLVals]

\* bestLL = -1e100, below every log-likelihood
MinusHuge == -1

\* for (let df = dfMin; df <= dfMax; df++) { if (ll > bestLL) {...} }
RECURSIVE ScanDf(_, _, _, _, _)
ScanDf(df, dfMax, ll, bestDf, bestLL) ==
  IF df > dfMax THEN bestDf
  ELSE IF ll[df] > bestLL THEN ScanDf(df + 1, dfMax, ll, df, ll[df])
  ELSE ScanDf(df + 1, dfMax, ll, bestDf, bestLL)

\* sigma <= 0 (false for NaN)
LeqZero(x) == IsFinite(x) /\ x[1] <= 0

FallbackDf == 5

\* fitTDfMLE without its sigma <= 0 guard
fitTDfMLE_NoGuard(r, dfMin, dfMax, ll) ==
  [df |-> ScanDf(dfMin, dfMax, ll, dfMin, MinusHuge),
   evals |-> IF dfMax < dfMin THEN 0 ELSE dfMax - dfMin + 1]

\* the scan with ll >= bestLL: the last of the best candidates
RECURSIVE ScanDfLast(_, _, _, _, _)
ScanDfLast(df, dfMax, ll, bestDf, bestLL) ==
  IF df > dfMax THEN bestDf
  ELSE IF ll[df] >= bestLL THEN ScanDfLast(df + 1, dfMax, ll, df, ll[df])
  ELSE ScanDfLast(df + 1, dfMax, ll, bestDf, bestLL)

\* fitTDfMLE keeping the last df that attains the maximum
fitTDfMLE_LastMax(r, dfMin, dfMax, ll) ==
  IF LeqZero(std(r)) THEN [df |-> FallbackDf, evals |-> 0]
  ELSE [df |-> ScanDfLast(dfMin, dfMax, ll, dfMin, MinusHuge),
        evals |-> IF dfMax < dfMin THEN 0 ELSE dfMax - dfMin + 1]

\* fitTDfMLE scanning from 2 whatever dfMin is
fitTDfMLE_FromTwo(r, dfMin, dfMax, ll) ==
  IF LeqZero(std(r)) THEN [df |-> FallbackDf, evals |-> 0]
  ELSE [df |-> ScanDf(2, dfMax, ll, 2, MinusHuge), evals |-> dfMax - 1]

\* the fitted df, and the number of studentTLoglike evaluations made
fitTDfMLE(r, dfMin, dfMax, ll) ==
  LET mu == mean(r)
      sigma == std(r)
  IN IF LeqZero(sigma) THEN [df |-> FallbackDf, evals |-> 0]
     ELSE [df |-> ScanDf(dfMin, dfMax, ll, dfMin, MinusHuge),
           evals |-> IF dfMax < dfMin THEN 0 ELSE dfMax - dfMin + 1]

\* ------------------------------------------------------------ worker: quantile
\* A simulated cumulative return is <<a, b>>, two rationals standing for
\* a + b * u, u >= 0 being the volatility unit of the run (sigma, or the
\* Student-t scale; Zero for bootstrap).

\* the sign of a + b * u
SimSign(x, u) ==
  LET a == x[1]
      c == FMul(x[2], <<u[1], u[2], 1>>)     \* the rational factor of b * u
      r == u[3]
      aa == a[1] * a[1] * c[2] * c[2]        \* a^2 and c^2 * r, cross-multiplied
      cc == c[1] * c[1] * r * a[2] * a[2]
  IN IF Sign(c) = 0 THEN Sign(a)
     ELSE IF Sign(a) = 0 \/ Sign(a) = Sign(c) THEN Sign(c)
     ELSE IF aa > cc THEN Sign(a) ELSE IF aa < cc THEN Sign(c) ELSE 0

SimSub(x, y) == <<FSub(x[1], y[1]), FSub(x[2], y[2])>>
SimAdd(x, y) == <<FAdd(x[1], y[1]), FAdd(x[2], y[2])>>
SimScale(k, x) == <<FMul(k, x[1]), FMul(k, x[2])>>
SimLess(x, y, u) == SimSign(SimSub(x, y), u) < 0

\* [...arr].sort((x, y) => x - y)
RECURSIVE SortAsc(_, _)
SortAsc(arr, u) ==
  IF arr = <<>> THEN <<>>
  ELSE LET rest == SortAsc(Tail(arr), u)
           x == Head(arr)
           k == Cardinality({i \in 1..Len(rest) : SimLess(rest[i], x, u)})
       IN SubSeq(rest, 1, k) \o <<x>> \o SubSeq(rest, k + 1, Len(rest))

SimUndefined == <<NaN, NaN>>

\* quantile returning the order statistic below the rank, not interpolated
quantile_NoInterpolation(arr, q, u) ==
  LET a == SortAsc(arr, u)
      pos == FMul(Num(Len(a) - 1), q)
      base == pos[1] \div pos[2]
  IN IF base + 1 \in 1..Len(a) THEN a[base + 1] ELSE SimUndefined

\* quantile(arr, q), q = <<n, d, 1>>; the array is indexed from 0 in the
\* source and from 1 here.  Reading past either end gives undefined, and
\* arithmetic on undefined gives NaN.
quantile(arr, q, u) ==
  LET a == SortAsc(arr, u)
      pos == FMul(Num(Len(a) - 1), q)
      base == pos[1] \div pos[2]                      \* Math.floor(pos)
      rest == FSub(pos, Num(base))
      At(i) == IF i + 1 \in 1..Len(a) THEN a[i + 1] ELSE SimUndefined
  IN IF base + 2 \in 1..Len(a)
       THEN SimAdd(At(base), SimScale(rest, SimSub(At(base + 1), At(base))))
       ELSE At(base)

\* the double a + b * u as the message carries it: <<rational part, surd part>>
SimValue(x, u) ==
  LET s == FMul(x[2], u)
  IN IF IsNaN(x[1]) \/ IsNaN(s) THEN <<NaN, NaN>>
     ELSE IF s[3] = 1 THEN <<FAdd(x[1], s), Zero>>
     ELSE <<x[1], s>>

VNaN == <<NaN, NaN>>

\* ------------------------------------------------------------ worker: random
\* randn() and randStdT(df) return a real; the model draws it from NormDraws.
NormDraws == {Num(-1), Num(0), Num(1)}

\* the sums a path of T days can reach when each day adds one of `daily`
RECURSIVE PathSums(_, _)
PathSums(T, daily) ==
  IF T = 0 THEN {Zero}
  ELSE {FAdd(s, d) : s \in PathSums(T - 1, daily), d \in daily}

\* (Math.random() * r.length) | 0: an index of r (0-based in the source)
BootIndex(r) == 1..Len(r)

\* ------------------------------------------------------------ worker: handler
Msg(var, has, mu, sigma, nu) ==
  [ok |-> TRUE, var |-> var, has |-> has, mu |-> mu, sigma |-> sigma, nu |-> nu]

\* new Float64Array(sims) throws a RangeError for a negative length
ArrayLengthOk(sims) == sims >= 0

\* every array Rs the two nested loops can fill
SimArrays(sims, sumsA, sumsB) == [1..sims -> {<<x, y>> : x \in sumsA, y \in sumsB}]

\* an outcome of the handler: the messages posted, whether it threw, and the
\* array Rs it simulated (with the volatility unit u of its entries)
Reply(ms) == [posts |-> ms, threw |-> FALSE, Rs |-> <<>>, u |-> Zero]
Thrown == [posts |-> <<>>, threw |-> TRUE, Rs |-> <<>>, u |-> Zero]
Simulated(Rs, u, ms) == [posts |-> ms, threw |-> FALSE, Rs |-> Rs, u |-> u]

\* the quantile posted without the minus sign
NegQuantile_Unnegated(Rs, ztail, u) == SimValue(quantile(Rs, ztail, u), u)

\* -quantile(Rs, ztail)
NegQuantile(Rs, ztail, u) == SimValue(SimScale(Num(-1), quantile(Rs, ztail, u)), u)

McNormal(r, ztail, T, sims) ==
  LET mu == mean(r)
      sigma == std(r)
  IN IF ~ArrayLengthOk(sims) THEN {Thrown}
     ELSE {Simulated(Rs, sigma,
                     <<Msg(NegQuantile(Rs, ztail, sigma), {"var", "mu", "sigma"},
                           mu, sigma, 0)>>) :
             Rs \in SimArrays(sims, {FMul(Num(T), mu)}, PathSums(T, NormDraws))}

McStudentT(r, ztail, T, sims, dfMax) ==
  LET mu == mean(r)
      sigma == std(r)
  IN UNION {
       LET dfHat == fitTDfMLE(r, 3, dfMax, ll).df
           scale == IF dfHat > 2
                      THEN FMul(sigma, FSqrt(Rat(dfHat - 2, dfHat)))
                      ELSE sigma
       IN IF ~ArrayLengthOk(sims) THEN {Thrown}
          ELSE {Simulated(Rs, scale,
                          <<Msg(NegQuantile(Rs, ztail, scale),
                                {"var", "mu", "sigma", "nu", "z"}, mu, sigma, dfHat)>>) :
                  Rs \in SimArrays(sims, {FMul(Num(T), mu)}, PathSums(T, NormDraws))}
       : ll \in LLTables(3, dfMax)}

\* the bootstrap branch with the inner loop running over t <= T
McBootstrap_ExtraDay(r, ztail, T, sims) ==
  IF ~ArrayLengthOk(sims) THEN {Thrown}
  ELSE {Simulated(Rs, Zero, <<Msg(NegQuantile(Rs, ztail, Zero), {"var"}, NaN, NaN, 0)>>) :
          Rs \in SimArrays(sims, PathSums(T + 1, {r[i] : i \in BootIndex(r)}), {Zero})}

\* the bootstrap branch with each path sum started at 1 instead of 0
McBootstrap_SumFromOne(r, ztail, T, sims) ==
  IF ~ArrayLengthOk(sims) THEN {Thrown}
  ELSE {Simulated(Rs, Zero, <<Msg(NegQuantile(Rs, ztail, Zero), {"var"}, NaN, NaN, 0)>>) :
          Rs \in SimArrays(sims, {FAdd(s, Num(1)) : s \in PathSums(T, {r[i] : i \in BootIndex(r)})},
                           {Zero})}

McBootstrap(r, ztail, T, sims) ==
  IF ~ArrayLengthOk(sims) THEN {Thrown}
  ELSE {Simulated(Rs, Zero, <<Msg(NegQuantile(Rs, ztail, Zero), {"var"}, NaN, NaN, 0)>>) :
          Rs \in SimArrays(sims, PathSums(T, {r[i] : i \in BootIndex(r)}), {Zero})}

\* self.onmessage: every outcome the handler can have on e.data, over the
\* random draws: the messages it posts, and whether it threw
OnMessage(data) ==
  IF data.task = "mcSingle" THEN
    LET p == data.payload
        ztail == Rat(1000 - p.conf, 1000)
    IN IF Len(p.r) < 2 THEN {Reply(<<Msg(VNaN, {"var"}, NaN, NaN, 0)>>)}
       ELSE IF p.method = "normal" THEN McNormal(p.r, ztail, p.T, p.sims)
       ELSE IF p.method = "t_mc" THEN McStudentT(p.r, ztail, p.T, p.sims, p.dfMax)
       ELSE IF p.method = "bootstrap" THEN McBootstrap(p.r, ztail, p.T, p.sims)
       ELSE {Reply(<<>>)}
  ELSE {Reply(<<>>)}

\* ------------------------------------------------------------ app: state
Ids == {"A", "B"}

\* weightsById[id]: a finite number, the empty string (Blank) or no entry
\* (Missing); neither of the last two is a finite number
Missing == <<0, 0, -1>>
Blank == <<0, 0, -2>>

\* The data sets: what preprocessing made of the uploaded rows.  A trades on
\* three dates in each of them, and B
\*   full:  on the same three dates
\*   gap:   on three dates of which it shares one with A
\*   flat:  on the same three dates, at a price that never moves
\*   short: on one date only
Row(d, lr) == [date |-> d, logRet |-> lr]
DataSets == {"full", "gap", "flat", "short"}
groupedAll(data) ==
  [id \in Ids |->
     IF id = "A" THEN <<Row(1, NaN), Row(2, Num(1)), Row(3, Num(-1))>>
     ELSE IF data = "full" THEN <<Row(1, NaN), Row(2, Num(0)), Row(3, Num(1))>>
     ELSE IF data = "gap" THEN <<Row(3, NaN), Row(4, Num(1)), Row(5, Num(0))>>
     ELSE IF data = "flat" THEN <<Row(1, NaN), Row(2, Num(0)), Row(3, Num(0))>>
     ELSE <<Row(1, NaN)>>]
\* Object.keys(retGrouped): the ids in localeCompare order
idsAll == <<"A", "B">>

\* the parameters of the left panel, as the user has left them
confs == <<950, 990>>
Ts == <<1, 2, 3>>
AppWindow == 2

NoProgress == [k |-> "none", c |-> 0, T |-> 0]
NoSummary == [k |-> "empty", msg |-> ""]
NoRun == [pc |-> "idle"]
NoSweep == [asked |-> {}, failed |-> {}, ids |-> <<>>, weights |-> <<>>]

\* the state of a freshly mounted App once idsAll is known (useState defaults,
\* then the idsAll effect)
AppFresh ==
  /\ mode = "single" /\ singleId = idsAll[1] /\ portfolioIds = <<>>
  /\ weightsById = [id \in Ids |-> Missing]
  /\ loading = FALSE /\ progressText = NoProgress /\ summary = NoSummary
  /\ resultRows = <<>> /\ lastCalcMode = "single" /\ priceSeriesIds = <<>>
  /\ run = NoRun /\ net = <<>> /\ sweep = NoSweep

AppIdle == cfg = [build |-> None, data |-> None, mcMethod |-> None, sims |-> 0] /\ AppFresh

\* ------------------------------------------------------------ SpecStat
\* The statistical functions applied to every bounded input.
NoRet == [k |-> None]

\* the window field is a free number input: any integer can reach the functions
Windows == (-MaxWindow)..MaxWindow

StatCalls ==
  [fn : {"latestSigmaRolling"}, r : SeqsUpTo(SeriesVals, MaxLen),
   window : Windows, conf : {950}, T : {1}]
  \cup
  [fn : {"normalVarSingle"}, r : SeqsUpTo(SeriesVals, MaxLen),
   window : Windows, conf : ConfChoices, T : 1..MaxT]

FitCalls ==
  UNION {[fn : {"fitTDfMLE"}, r : SeqsUpTo(PoolVals, MaxLen),
          dfMin : {lo}, dfMax : {hi}, ll : LLTables(2, hi)] :
           lo \in {2, 3}, hi \in 3..MaxDf}

WkIdle == wkInbox = <<>> /\ wkOut = <<>> /\ wkLog = <<>>
FnIdle == call = [fn |-> None] /\ ret = NoRet

\* every series preprocessing can produce on the dates 1..MaxDate: increasing
\* dates, NaN in the first row, a finite return in every other
SeriesOn(D) ==
  LET ds == SortedDates(D)
  IN {[i \in DOMAIN ds |-> [date |-> ds[i], logRet |-> IF i = 1 THEN NaN ELSE f[i]]] :
        f \in [DOMAIN ds -> ReturnVals]}
SeriesSet == UNION {SeriesOn(D) : D \in SUBSET (1..MaxDate)}

PortCalls ==
  [fn : {"normalVarPortfolio"}, grouped : [{"A", "B"} -> SeriesSet],
   ids : {<<"A", "B">>}, conf : {950}, T : {1}, window : {1, MaxWindow},
   weights : {NoWeights, [id \in {"A", "B"} |-> IF id = "A" THEN Rat(2, 3) ELSE Rat(1, 3)],
              [id \in {"A", "B"} |-> IF id = "A" THEN Num(1) ELSE Num(0)]}]

\* a series in which a date occurs twice (two ids that collate equal)
DupSeries ==
  {<<[date |-> 1, logRet |-> NaN], [date |-> 1, logRet |-> Num(0)],
     [date |-> MaxDate, logRet |-> v]>> : v \in ReturnVals}

\* quantile on every array of up to MaxLen numbers, at the levels 0, 1/20,
\* 1/2 and 1
QuantileCalls ==
  [fn : {"quantile"}, arr : SeqsUpTo({<<x, Zero>> : x \in ReturnVals}, MaxLen),
   q : {Num(0), Rat(1, 20), Rat(1, 2), Num(1)}]

\* zFromConf at a confidence and at its mirror image 1 - conf
ZCalls == [fn : {"zFromConf"}, conf : ConfGrid]

AlignCalls ==
  [fn : {"alignedWideReturns"}, grouped : [{"A", "B"} -> SeriesSet \cup DupSeries],
   ids : {<<"A", "B">>, <<"B", "A">>, <<"A">>}]

InitStat ==
  /\ call \in StatCalls \cup FitCalls \cup PortCalls \cup AlignCalls \cup QuantileCalls
            \cup ZCalls
       /\ ret = NoRet
  /\ WkIdle /\ AppIdle

ApplyLatestSigma ==
  /\ call.fn = "latestSigmaRolling" /\ ret = NoRet
  /\ ret' = [k |-> "sigma", sigma |-> latestSigmaRolling(call.r, call.window)]
  /\ UNCHANGED <<call, wkVars, appVars>>

ApplyNormalVarSingle ==
  /\ call.fn = "normalVarSingle" /\ ret = NoRet
  /\ ret' = [k |-> "var",
             out |-> normalVarSingle(call.r, call.conf, call.T, call.window)]
  /\ UNCHANGED <<call, wkVars, appVars>>

ApplyFitTDfMLE ==
  /\ call.fn = "fitTDfMLE" /\ ret = NoRet
  /\ ret' = [k |-> "fit", out |-> fitTDfMLE(call.r, call.dfMin, call.dfMax, call.ll)]
  /\ UNCHANGED <<call, wkVars, appVars>>

ApplyNormalVarPortfolio ==
  /\ call.fn = "normalVarPortfolio" /\ ret = NoRet
  /\ ret' = [k |-> "port",
             out |-> normalVarPortfolio(call.grouped, call.ids, call.conf, call.T,
                                        call.window, call.weights)]
  /\ UNCHANGED <<call, wkVars, appVars>>

ApplyAlignedWideReturns ==
  /\ call.fn = "alignedWideReturns" /\ ret = NoRet
  /\ ret' = [k |-> "wide", out |-> alignedWideReturns(call.grouped, call.ids)]
  /\ UNCHANGED <<call, wkVars, appVars>>

ApplyQuantile ==
  /\ call.fn = "quantile" /\ ret = NoRet
  /\ ret' = [k |-> "quantile", out |-> quantile(call.arr, call.q, Zero)]
  /\ UNCHANGED <<call, wkVars, appVars>>

ApplyZFromConf ==
  /\ call.fn = "zFromConf" /\ ret = NoRet
  /\ ret' = [k |-> "z", out |-> zFromConf(call.conf), mirror |-> zFromConf(1000 - call.conf)]
  /\ UNCHANGED <<call, wkVars, appVars>>

NextStat ==
  \/ ApplyAlignedWideReturns
  \/ ApplyQuantile
  \/ ApplyZFromConf
  \/ ApplyLatestSigma
  \/ ApplyNormalVarSingle
  \/ ApplyFitTDfMLE
  \/ ApplyNormalVarPortfolio

SpecStat == InitStat /\ [][NextStat]_vars

\* ------------------------------------------------------------ preprocessing
\* A raw row after toDate and toNumber: [id, date, price].  date 0 is an
\* invalid date, price 0 a price that is not a finite number > 0.  The ids
\* "E1" and "E2" are two spellings of one text (canonically equivalent
\* Unicode strings, as a precomposed and a decomposed accented letter): they
\* are different strings, and localeCompare gives 0 on them.
RawIds == {"B", "E1", "E2"}
RawRows == [id : RawIds, date : 0..MaxDate, price : {0, 1, 2}]

\* the position of an id in the order of localeCompare
CollationRank(id) == IF id = "B" THEN 1 ELSE 2

\* a.id.localeCompare(b.id) || a.date - b.date is negative
Before(a, b) ==
  \/ CollationRank(a.id) < CollationRank(b.id)
  \/ CollationRank(a.id) = CollationRank(b.id) /\ a.date < b.date

\* .filter(r => r.id && isFinite(r.date.getTime()) && isFinite(r.price) && r.price > 0)
ValidRow(r) == r.id # "" /\ r.date # 0 /\ r.price > 0

\* Array.prototype.sort is stable: rows that compare equal keep their order
RECURSIVE StableSort(_)
StableSort(rows) ==
  IF rows = <<>> THEN <<>>
  ELSE LET rest == StableSort(SubSeq(rows, 1, Len(rows) - 1))
           x == rows[Len(rows)]
           k == Cardinality({i \in DOMAIN rest : ~Before(x, rest[i])})
       IN SubSeq(rest, 1, k) \o <<x>> \o SubSeq(rest, k + 1, Len(rest))

\* the loop filling tmp: a row with the id and the date of the row before
\* it replaces that row
RECURSIVE Dedupe(_)
Dedupe(cleaned) ==
  IF cleaned = <<>> THEN <<>>
  ELSE LET tmp == Dedupe(SubSeq(cleaned, 1, Len(cleaned) - 1))
           cur == cleaned[Len(cleaned)]
       IN IF tmp # <<>> /\ tmp[Len(tmp)].id = cur.id /\ tmp[Len(tmp)].date = cur.date
            THEN [tmp EXCEPT ![Len(tmp)] = cur]
            ELSE Append(tmp, cur)

\* Math.log(cur.price / prev.price), in units of log 2: the prices are 1 and 2
LogRatio(cur, prev) == Num(cur - prev)

\* retGrouped: the rows of every id that has one, each with its logRet
retGrouped(rawRows) ==
  LET tmp == Dedupe(StableSort(Filter(rawRows, ValidRow)))
      Of(id) == LET Mine(r) == r.id = id IN Filter(tmp, Mine)
  IN [id \in {tmp[i].id : i \in DOMAIN tmp} |->
        [i \in DOMAIN Of(id) |->
           [date |-> Of(id)[i].date, price |-> Of(id)[i].price,
            logRet |-> IF i = 1 THEN NaN
                       ELSE LogRatio(Of(id)[i].price, Of(id)[i - 1].price)]]]

\* ------------------------------------------------------------ SpecPrep
\* Preprocessing applied to every upload of up to MaxRows raw rows.
PrepCalls == [fn : {"preprocess"}, rows : SeqsUpTo(RawRows, MaxRows)]

InitPrep == call \in PrepCalls /\ ret = NoRet /\ WkIdle /\ AppIdle

ApplyPreprocess ==
  /\ call.fn = "preprocess" /\ ret = NoRet
  /\ ret' = [k |-> "grouped", out |-> retGrouped(call.rows)]
  /\ UNCHANGED <<call, wkVars, appVars>>

SpecPrep == InitPrep /\ [][ApplyPreprocess]_vars

\* ------------------------------------------------------------ SpecMC
\* The worker alone: a first request drawn from every bounded payload, a
\* second one that may arrive while the first is pending, and the handler.
Methods == {"normal", "t_mc", "bootstrap"}
\* the K field is a free number input: a negative count, none, one path, two
SimsChoices == {-1, 0, 1, 2}

Payloads ==
  [r : SeqsUpTo(PoolVals, MaxPool), conf : ConfChoices, T : 1..MaxT,
   sims : SimsChoices, method : {"normal", "bootstrap", "other"}, dfMax : {MaxDf}]
  \cup
  [r : SeqsUpTo(PoolVals, MaxPool), conf : ConfChoices, T : 1..MaxT,
   sims : SimsChoices, method : {"t_mc"}, dfMax : 3..MaxDf]

Requests == [task : {"mcSingle"}, payload : Payloads]

\* what may arrive behind the first request
FollowUps ==
  { [task |-> "mcSingle",
     payload |-> [r |-> <<Num(0), Num(0)>>, conf |-> 950, T |-> 1, sims |-> 1,
                  method |-> "bootstrap", dfMax |-> MaxDf]],
    [task |-> "mcSingle",
     payload |-> [r |-> <<Num(-1), Num(1)>>, conf |-> 950, T |-> 1, sims |-> 2,
                  method |-> "bootstrap", dfMax |-> MaxDf]] }

InitMC ==
  /\ FnIdle /\ AppIdle
  /\ wkInbox \in {<<q>> : q \in Requests}
  /\ wkOut = <<>>
  /\ wkLog = <<>>

\* worker.postMessage by some client while the first request is pending
WkPost ==
  /\ wkLog = <<>> /\ Len(wkInbox) = 1
  /\ \E q \in FollowUps : wkInbox' = Append(wkInbox, q)
  /\ UNCHANGED <<fnVars, wkOut, wkLog, appVars>>

\* a handler that keeps the pool of the request it served before and
\* simulates from it
WkRun_CachedPool(logged) ==
  /\ wkInbox # <<>>
  /\ LET msg == IF wkLog = <<>> THEN Head(wkInbox)
                ELSE [Head(wkInbox) EXCEPT !.payload.r = wkLog[Len(wkLog)].req.payload.r]
     IN \E out \in OnMessage(msg) :
          /\ wkOut' = wkOut \o out.posts
          /\ wkLog' = IF logged THEN Append(wkLog, [req |-> Head(wkInbox), out |-> out])
                               ELSE wkLog
  /\ wkInbox' = Tail(wkInbox)

\* the worker's event loop runs self.onmessage on the oldest message, to
\* completion
WkRun(logged) ==
  /\ wkInbox # <<>>
  /\ \E out \in OnMessage(Head(wkInbox)) :
       /\ wkOut' = wkOut \o out.posts
       /\ wkLog' = IF logged THEN Append(wkLog, [req |-> Head(wkInbox), out |-> out])
                            ELSE wkLog
  /\ wkInbox' = Tail(wkInbox)

WkHandle == WkRun(TRUE) /\ UNCHANGED <<fnVars, appVars>>

NextMC == WkPost \/ WkHandle

SpecMC == InitMC /\ [][NextMC]_vars

\* ------------------------------------------------------------ SpecEst
\* The estimators together: the statistical functions and the worker.
InitEst == InitStat \/ InitMC
NextEst == NextStat \/ NextMC
SpecEst == InitEst /\ [][NextEst]_vars

\* ------------------------------------------------------------ app: selection and weights
SeqSet(q) == {q[i] : i \in DOMAIN q}
\* portfolioIds.join("|") changes exactly when the sequence does: no id holds "|"
JoinKey(q) == q

\* an effect that gives every selected id the weight 1, entered or not
WeightsEffect_ResetAll(m, ids, prev) ==
  IF m # "portfolio" THEN prev
  ELSE [id \in Ids |-> IF id \notin SeqSet(ids) THEN Missing ELSE Num(1)]

\* the effect on [mode, portfolioIds.join("|")]: give every selected id that
\* has no finite weight the weight 1, drop the weights of the others
WeightsEffect(m, ids, prev) ==
  IF m # "portfolio" THEN prev
  ELSE [id \in Ids |->
          IF id \notin SeqSet(ids) THEN Missing
          ELSE IF prev[id] = Missing \/ ~IsFinite(prev[id]) THEN Num(1)
          ELSE prev[id]]

\* a render after which React runs the effect when one of its deps changed
AfterRender(m, ids, w) ==
  /\ mode' = m
  /\ portfolioIds' = ids
  /\ weightsById' = IF m # mode \/ JoinKey(ids) # JoinKey(portfolioIds)
                       THEN WeightsEffect(m, ids, w) ELSE w

\* toNumber on a weightsById entry: undefined and "" give NaN, a number itself
toNumber(v) == IF v = Missing \/ v = Blank THEN NaN ELSE IF IsFinite(v) THEN v ELSE NaN

\* Number(text) for the texts typed into a weight field
WeightTexts == {"", "x", "-1", "1", "2"}
NumberOf(text) ==
  IF text = "" THEN Num(0)
  ELSE IF text = "-1" THEN Num(-1)
  ELSE IF text = "1" THEN Num(1)
  ELSE IF text = "2" THEN Num(2)
  ELSE NaN

Threw(msg) == [ok |-> FALSE, msg |-> msg, w |-> NoWeights]
Returned(w) == [ok |-> TRUE, msg |-> "", w |-> w]
\* the messages of the errors thrown, in English
MsgWeightMissing == "a weight is empty or not a number: complete it in the weights dialog"
MsgWeightSum == "the sum of the weights must exceed 0"

\* parseWeights returning the weights as typed, not divided by their sum
parseWeights_NoNormalise(ids, weights) ==
  LET arr == [i \in DOMAIN ids |-> toNumber(weights[ids[i]])]
  IN IF \E i \in DOMAIN arr : ~IsFinite(arr[i]) THEN Threw(MsgWeightMissing)
     ELSE IF LeqZero(SumSeq(arr)) THEN Threw(MsgWeightSum)
     ELSE Returned([id \in SeqSet(ids) |-> arr[CHOOSE i \in DOMAIN ids : ids[i] = id]])

parseWeights(ids, weights) ==
  LET arr == [i \in DOMAIN ids |-> toNumber(weights[ids[i]])]
      hasAny == \E i \in DOMAIN arr : IsFinite(arr[i])
      sum == SumSeq(arr)
  IN IF ids = <<>> THEN Returned(NoWeights)
     ELSE IF ~hasAny
       THEN Returned([id \in SeqSet(ids) |-> Rat(1, Len(ids))])
     ELSE IF \E i \in DOMAIN arr : ~IsFinite(arr[i]) THEN Threw(MsgWeightMissing)
     ELSE IF LeqZero(sum) THEN Threw(MsgWeightSum)
     ELSE Returned([id \in SeqSet(ids) |->
                      FDiv(arr[CHOOSE i \in DOMAIN ids : ids[i] = id], sum)])

\* The controls are explored while no calculation is loading: runCalc works
\* on the values it closed over at the click, and an edit made meanwhile
\* leads to a state that the same edit reaches afterwards.
Editable == cfg.build # None /\ ~loading

KeepRest == UNCHANGED <<fnVars, wkVars, cfg, singleId, outVars, runVars>>

\* the two mode buttons
SetMode(m) ==
  /\ Editable /\ m # mode
  /\ AfterRender(m, portfolioIds, weightsById)
  /\ KeepRest

\* SymbolSelectorModal, single mode: pick the instrument
SetSingleId(id) ==
  /\ Editable /\ mode = "single" /\ id \in SeqSet(idsAll) /\ id # singleId
  /\ singleId' = id
  /\ UNCHANGED <<fnVars, wkVars, cfg, mode, portfolioIds, weightsById, outVars, runVars>>

\* SymbolSelectorModal, portfolio mode: togglePortfolio(id)
TogglePortfolio(id) ==
  /\ Editable /\ mode = "portfolio" /\ id \in SeqSet(idsAll)
  /\ LET IsNot(x) == x # id
         next == IF id \in SeqSet(portfolioIds) THEN Filter(portfolioIds, IsNot)
                 ELSE Append(portfolioIds, id)
     IN AfterRender(mode, next, weightsById)
  /\ KeepRest

\* the buttons "select all" and "select none" of the selector
SelectAll ==
  /\ Editable /\ mode = "portfolio" /\ portfolioIds # idsAll
  /\ AfterRender(mode, idsAll, weightsById)
  /\ KeepRest

SelectNone ==
  /\ Editable /\ mode = "portfolio" /\ portfolioIds # <<>>
  /\ AfterRender(mode, <<>>, weightsById)
  /\ KeepRest

\* WeightsModal: opened from the portfolio panel once an id is selected
WeightsOpen == Editable /\ mode = "portfolio" /\ portfolioIds # <<>>

setOne(id, v) ==
  /\ WeightsOpen /\ id \in SeqSet(portfolioIds)
  /\ LET n == NumberOf(v)
     IN weightsById' = [weightsById EXCEPT ![id] = IF IsFinite(n) THEN n ELSE Blank]
  /\ weightsById' # weightsById
  /\ UNCHANGED <<fnVars, wkVars, cfg, mode, singleId, portfolioIds, outVars, runVars>>

setEqual ==
  /\ WeightsOpen
  /\ weightsById' = [id \in Ids |-> IF id \in SeqSet(portfolioIds) THEN Num(1) ELSE Missing]
  /\ weightsById' # weightsById
  /\ UNCHANGED <<fnVars, wkVars, cfg, mode, singleId, portfolioIds, outVars, runVars>>

ClearWeights ==
  /\ WeightsOpen
  /\ weightsById' = [id \in Ids |-> Missing]
  /\ weightsById' # weightsById
  /\ UNCHANGED <<fnVars, wkVars, cfg, mode, singleId, portfolioIds, outVars, runVars>>

Edit ==
  \/ \E m \in {"single", "portfolio"} : SetMode(m)
  \/ \E id \in Ids : SetSingleId(id)
  \/ \E id \in Ids : TogglePortfolio(id)
  \/ SelectAll
  \/ SelectNone
  \/ \E id \in Ids, v \in WeightTexts : setOne(id, v)
  \/ setEqual
  \/ ClearWeights

\* ------------------------------------------------------------ app: runCalc
\* fmtPct2: a percentage for a finite number, a dash otherwise
fmtPct2(v) == IF IsFinite(v) THEN "pct" ELSE "dash"
fmtPct2Var(v) == IF IsFiniteVar(v) THEN "pct" ELSE "dash"

FinRets(series) == Filter(LogRets(series), IsFinite)

\* rAll.length > window ? rAll.slice(-window) : rAll
McWindow(rAll) == rMC(rAll, AppWindow)

\* rMC.map(v => v - mu)
Centered(r) == [i \in DOMAIN r |-> FSub(r[i], meanStd(r).mu)]

\* the pool handed to callWorkerSingle: rMC0 in the fetch build, rMC in the
\* worker build
PoolFor(r) == IF cfg.build = "http" THEN Centered(McWindow(r)) ELSE McWindow(r)

TableRow(method, ci, v) == [method |-> method, conf |-> confs[ci], v |-> v]

SingleRows(rAll) ==
  [ci \in DOMAIN confs |->
     TableRow("normal", ci,
              [ti \in DOMAIN Ts |->
                 fmtPct2(normalVarSingle(rAll, confs[ci], Ts[ti], AppWindow).var)])]

PortfolioRows(grouped, ids, weights) ==
  [ci \in DOMAIN confs |->
     TableRow("normal", ci,
              [ti \in DOMAIN Ts |->
                 fmtPct2Var(normalVarPortfolio(grouped, ids, confs[ci], Ts[ti],
                                               AppWindow, weights).var)])]

\* wideClean.map((r) => ids.reduce((s, id, i) => s + r[id] * wVec[i], 0))
\*          .filter(Number.isFinite)
rpHist(wideClean, ids, weights) ==
  Filter([k \in DOMAIN wideClean |->
            SumSeq([i \in DOMAIN ids |-> FMul(wideClean[k].v[ids[i]], weights[ids[i]])])],
         IsFinite)

MsgTooFewIds == "a portfolio needs at least 2 instruments"
MsgTooFewValid == "too few valid instruments: at least 2 need >= 2 valid returns"
MsgNoOverlap == "too few common dates after alignment (wideClean<2)"
MsgTypeError == "TypeError"

\* The synchronous part of runCalc, up to its first await: either it threw
\* ([ok |-> FALSE, msg]) or it reached the Monte Carlo loop with the rows of
\* the closed-form method, the pool and the ids of the chart.
Prologue ==
  LET g == groupedAll(cfg.data)
  IN IF mode = "single" THEN
       LET cid == IF singleId \in DOMAIN g THEN singleId ELSE idsAll[1]
           rAll == FinRets(g[cid])
       IN [ok |-> TRUE, msg |-> "", rows |-> SingleRows(rAll), pool |-> PoolFor(rAll),
           ids |-> <<cid>>, weights |-> NoWeights]
     ELSE
       LET ids == portfolioIds
           Valid(id) == Len(FinRets(g[id])) >= 2
           validIds == Filter(ids, Valid)
           parsed == parseWeights(validIds, weightsById)
           wideClean == CleanRows(alignedWideReturns(g, validIds), validIds)
           bad(msg, vids, w) == [ok |-> FALSE, msg |-> msg, rows |-> <<>>, pool |-> <<>>,
                                 ids |-> vids, weights |-> w]
       IN IF Len(ids) < 2 THEN bad(MsgTooFewIds, <<>>, NoWeights)
          ELSE IF Len(validIds) < 2 THEN bad(MsgTooFewValid, <<>>, NoWeights)
          ELSE IF ~parsed.ok THEN bad(parsed.msg, <<>>, NoWeights)
          ELSE IF Len(wideClean) < 2 THEN bad(MsgNoOverlap, validIds, parsed.w)
          ELSE [ok |-> TRUE, msg |-> "",
                rows |-> PortfolioRows(g, validIds, parsed.w),
                pool |-> PoolFor(rpHist(wideClean, validIds, parsed.w)),
                ids |-> validIds, weights |-> parsed.w]

\* the message of a loop that walks the horizons from the last to the first
Request_HorizonsReversed(r, ci, ti) ==
  [task |-> "mcSingle",
   payload |-> [r |-> r, conf |-> confs[ci], T |-> Ts[Len(Ts) + 1 - ti], sims |-> cfg.sims,
                method |-> cfg.mcMethod, dfMax |-> MaxDf]]

\* the message callWorkerSingle(r, conf, T) sends
Request(r, ci, ti) ==
  [task |-> "mcSingle",
   payload |-> [r |-> r, conf |-> confs[ci], T |-> Ts[ti], sims |-> cfg.sims,
                method |-> cfg.mcMethod, dfMax |-> MaxDf]]

\* callWorkerSingle up to its suspension: the worker build posts the message
\* to the worker, the fetch build sends it to /api/mcSingle
Send(inbox, flying, r, ci, ti) ==
  /\ wkInbox' = IF cfg.build = "worker" THEN Append(inbox, Request(r, ci, ti)) ELSE inbox
  /\ net' = IF cfg.build = "http" THEN Append(flying, Request(r, ci, ti)) ELSE flying

\* the catch without the finally block: loading and the progress text stay
Caught_NoFinally(msg) ==
  /\ summary' = [k |-> "fail", msg |-> msg]
  /\ UNCHANGED <<progressText, loading>>
  /\ run' = NoRun

\* catch (err) { setSummary(...) } finally { setProgressText(""); setLoading(false) }
Caught(msg) ==
  /\ summary' = [k |-> "fail", msg |-> msg]
  /\ progressText' = NoProgress
  /\ loading' = FALSE
  /\ run' = NoRun

\* the normalised weights of the ids a calculation kept, in their order (none
\* in single mode, none when it threw before or in parseWeights)
WeightSeq(p) ==
  IF DOMAIN p.weights = {} THEN <<>> ELSE [i \in DOMAIN p.ids |-> p.weights[p.ids[i]]]

\* a start button that stays enabled while loading
StartDisabled_Never == FALSE

\* the start button is disabled while loading (rawRows is not empty here)
StartDisabled == loading

\* A click on the start button: runCalc from its first line to its first
\* await, or to its end when it throws before.
StartRunCalc ==
  /\ cfg.build # None /\ ~StartDisabled
  /\ idsAll # <<>>
  /\ \E p \in {Prologue} :
        /\ resultRows' = <<>>
        /\ priceSeriesIds' = <<>>
        /\ IF ~p.ok
             THEN /\ Caught(p.msg)
                  /\ sweep' = [NoSweep EXCEPT !.ids = p.ids, !.weights = WeightSeq(p)]
                  /\ UNCHANGED <<wkInbox, net>>
             ELSE /\ loading' = TRUE
                  /\ summary' = NoSummary
                  /\ progressText' = [k |-> "mc", c |-> 1, T |-> 1]
                  /\ run' = [pc |-> "await", mode |-> mode, ci |-> 1, ti |-> 1,
                             vList |-> <<>>, nuFit |-> FALSE, rows |-> p.rows,
                             pool |-> p.pool, ids |-> p.ids]
                  /\ sweep' = [asked |-> {<<1, 1>>}, failed |-> {}, ids |-> p.ids,
                               weights |-> WeightSeq(p)]
                  /\ Send(wkInbox, net, p.pool, 1, 1)
  /\ UNCHANGED <<fnVars, wkOut, wkLog, cfg, uiVars, lastCalcMode>>

\* What an await of callWorkerSingle gives: an object whose var is a number
\* ("num"), NaN ("nan") or anything else ("undef"), or an exception.
Gave(var, nu, kind) == [t |-> "data", var |-> var, nu |-> nu, kind |-> kind]
ThrewAt(kind) == [t |-> "throw", var |-> "undef", nu |-> FALSE, kind |-> kind]
FailureKinds == {"http_err", "novar", "null", "bad_json", "reject"}

\* vList.push(out.var ?? 0)
PushVar_DefaultZero(vList, out) ==
  Append(vList, IF out.var = "undef" THEN "num" ELSE out.var)

\* vList.push(out.var)
PushVar(vList, out) == Append(vList, out.var)

\* runCalc from the await of the pair (run.ci, run.ti) to its next await or
\* to its end
Resume(out, inbox, flying) ==
  LET vList == PushVar(run.vList, out)
      nuFit == IF cfg.mcMethod = "t_mc" /\ out.nu THEN TRUE ELSE run.nuFit
      lastT == run.ti = Len(Ts)
      lastC == run.ci = Len(confs)
      \* vList[i].toFixed(6) on something that is not a number
      typeError == \E i \in DOMAIN vList : vList[i] = "undef"
      rows == Append(run.rows,
                     TableRow("mc", run.ci,
                              [i \in DOMAIN vList |->
                                 IF vList[i] = "num" THEN "pct" ELSE "dash"]))
      failed == IF out.kind \in FailureKinds
                  THEN sweep.failed \cup {<<run.ci, run.ti, out.kind>>} ELSE sweep.failed
  IN /\ run.pc = "await"
     /\ IF out.t = "throw" \/ (lastT /\ typeError)
          THEN /\ Caught(IF out.t = "throw" THEN out.kind ELSE MsgTypeError)
               /\ sweep' = [sweep EXCEPT !.failed = failed]
               /\ wkInbox' = inbox /\ net' = flying
               /\ UNCHANGED <<resultRows, priceSeriesIds, lastCalcMode>>
          ELSE IF ~lastT
          THEN /\ run' = [run EXCEPT !.ti = @ + 1, !.vList = vList, !.nuFit = nuFit]
               /\ progressText' = [k |-> "mc", c |-> run.ci, T |-> run.ti + 1]
               /\ sweep' = [sweep EXCEPT !.asked = @ \cup {<<run.ci, run.ti + 1>>},
                                         !.failed = failed]
               /\ Send(inbox, flying, run.pool, run.ci, run.ti + 1)
               /\ UNCHANGED <<loading, summary, resultRows, priceSeriesIds, lastCalcMode>>
          ELSE IF ~lastC
          THEN /\ run' = [run EXCEPT !.ci = @ + 1, !.ti = 1, !.vList = <<>>,
                                     !.nuFit = FALSE, !.rows = rows]
               /\ progressText' = [k |-> "mc", c |-> run.ci + 1, T |-> 1]
               /\ sweep' = [sweep EXCEPT !.asked = @ \cup {<<run.ci + 1, 1>>},
                                         !.failed = failed]
               /\ Send(inbox, flying, run.pool, run.ci + 1, 1)
               /\ UNCHANGED <<loading, summary, resultRows, priceSeriesIds, lastCalcMode>>
          ELSE /\ priceSeriesIds' = run.ids
               /\ lastCalcMode' = IF run.mode = "single" \/ cfg.build = "worker"
                                     THEN run.mode ELSE lastCalcMode
               /\ summary' = [k |-> "report", msg |-> ""]
               /\ resultRows' = rows
               /\ progressText' = NoProgress
               /\ loading' = FALSE
               /\ run' = NoRun
               /\ sweep' = [sweep EXCEPT !.failed = failed]
               /\ wkInbox' = inbox /\ net' = flying

\* the worker's reply as runCalc reads it
FromWorker(m) ==
  Gave(IF "var" \notin m.has THEN "undef" ELSE IF m.var = VNaN THEN "nan" ELSE "num",
       "nu" \in m.has /\ m.nu # 0, "reply")

\* the worker build: the worker handles the oldest message
WkServe ==
  /\ cfg.build = "worker"
  /\ WkRun(FALSE)
  /\ UNCHANGED <<fnVars, appVars>>

\* workerRef.current.onmessage = (e) => resolve(e.data)
WkDeliver ==
  /\ cfg.build = "worker" /\ wkOut # <<>>
  /\ Resume(FromWorker(Head(wkOut)), wkInbox, net)
  /\ wkOut' = Tail(wkOut)
  /\ UNCHANGED <<fnVars, wkLog, cfg, uiVars>>

\* The fetch build: what the round trip to /api/mcSingle can give.
\*   ok        a 2xx response whose JSON body has a numeric var
\*   novar     a 2xx response whose JSON body is an object with no numeric var
\*   null      a 2xx response whose JSON body is null
\*   bad_json  a 2xx response whose body is not JSON: resp.json() rejects
\*   http_err  a response with resp.ok false: { ok: false, error }
\*   reject    fetch rejects
HttpOutcomes ==
  {Gave("num", nu, "ok") : nu \in BOOLEAN}
  \cup {Gave("undef", FALSE, "novar"), Gave("undef", FALSE, "http_err")}
  \cup {ThrewAt(k) : k \in {"null", "bad_json", "reject"}}

HttpRespond ==
  /\ cfg.build = "http" /\ net # <<>>
  /\ \E out \in HttpOutcomes : Resume(out, wkInbox, Tail(net))
  /\ UNCHANGED <<fnVars, wkOut, wkLog, cfg, uiVars>>

\* ------------------------------------------------------------ Spec
\* The application: one build, one data set, one Monte Carlo configuration,
\* and every sequence of edits and calculations.
Configs ==
  [build : {"worker"}, data : DataSets, mcMethod : Methods, sims : {-1, 1}]
  \cup [build : {"http"}, data : DataSets, mcMethod : Methods, sims : {1}]

Init == FnIdle /\ WkIdle /\ AppFresh /\ cfg \in Configs

\* the instrument and the mode change, the weights stay those of the effect
Next ==
  \/ \E m \in {"single", "portfolio"} : SetMode(m)
  \/ \E id \in Ids : SetSingleId(id)
  \/ SelectAll
  \/ StartRunCalc
  \/ WkServe
  \/ WkDeliver
  \/ HttpRespond

Spec == Init /\ [][Next]_vars

\* ------------------------------------------------------------ SpecWeights
\* The weights dialog and the selector in full, in front of one configuration
\* of the worker build.
InitWeights ==
  /\ FnIdle /\ WkIdle /\ AppFresh
  /\ cfg \in [build : {"worker"}, data : DataSets, mcMethod : {"bootstrap"}, sims : {1}]

NextWeights == Edit \/ StartRunCalc \/ WkServe \/ WkDeliver

SpecWeights == InitWeights /\ [][NextWeights]_vars

\* ------------------------------------------------------------ FairSpec
\* The worker build computing single-instrument sweeps, under the scheduling
\* of the two event loops: the worker handles a posted message, the page
\* handles a message the worker posted back.  Nothing makes the user click.
InitWorker ==
  /\ FnIdle /\ WkIdle /\ AppFresh
  /\ cfg \in [build : {"worker"}, data : {"full"}, mcMethod : Methods, sims : {-1, 1}]

NextWorker == StartRunCalc \/ WkServe \/ WkDeliver

\* WkServe can be taken exactly when the worker has a message waiting: the
\* handler has an outcome on every message (OnMessage is never empty), and
\* taking it shortens wkInbox.
ServeEnabled == cfg.build = "worker" /\ wkInbox # <<>>

\* weak fairness of WkServe, written out: WF_vars(WkServe) with ENABLED
\* <<WkServe>>_vars replaced by ServeEnabled
FairServe == []<>(~ServeEnabled) \/ []<><<WkServe>>_vars

FairSpec ==
  /\ InitWorker /\ [][NextWorker]_vars
  /\ FairServe /\ WF_vars(WkDeliver)

\* ------------------------------------------------------------ FairApp
\* Both builds in front of the full data set, in both modes, under the
\* scheduling the platform gives: the worker's event loop handles a waiting
\* message, a posted reply is delivered, and a fetch settles.  The user's
\* clicks are under no fairness.
InitFairApp ==
  /\ FnIdle /\ WkIdle /\ AppFresh
  /\ cfg \in [build : {"worker"}, data : {"full"}, mcMethod : {"bootstrap"}, sims : {-1, 1}]
             \cup [build : {"http"}, data : {"full"}, mcMethod : {"bootstrap"}, sims : {1}]

NextFairApp ==
  \/ \E m \in {"single", "portfolio"} : SetMode(m)
  \/ SelectAll
  \/ StartRunCalc
  \/ WkServe
  \/ WkDeliver
  \/ HttpRespond

FairApp ==
  /\ InitFairApp /\ [][NextFairApp]_vars
  /\ FairServe /\ WF_vars(WkDeliver) /\ WF_vars(HttpRespond)

\* ------------------------------------------------------------ claims
\* the payload of the i-th handled message, and what handling it did
Handled(i) == wkLog[i].req.payload
Outcome(i) == wkLog[i].out
RepliedOnce(i) == Len(Outcome(i).posts) = 1 /\ ~Outcome(i).threw

\* C3: every mcSingle request whose method is one of the three regimes gets
\* exactly one response message, posted by the handler while it handles that
\* request (before any other request is handled).
C3_ExactlyOneResponse ==
  \A i \in DOMAIN wkLog :
    wkLog[i].req.task = "mcSingle" /\ Handled(i).method \in Methods
      => RepliedOnce(i)

\* the requests sent and not answered yet, and all the pairs of a sweep
Outstanding == Len(wkInbox) + Len(wkOut) + Len(net)
AllPairs == {<<ci, ti>> : ci \in DOMAIN confs, ti \in DOMAIN Ts}
RunEnded == run.pc = "idle" /\ ~loading

\* C1: when the Monte Carlo request of one (confidence, horizon) pair fails,
\* the remaining pairs of the sweep are still computed and the results are
\* still reported.
C1_FailedPairDoesNotAbort ==
  RunEnded /\ sweep.failed # {}
    => sweep.asked = AllPairs /\ summary.k = "report" /\ resultRows # <<>>

\* C2: at most one Monte Carlo request is outstanding at any moment; the
\* request of a pair is sent when every earlier pair has been sent and
\* answered; while one is outstanding runCalc is suspended on it and loading
\* is true, which disables the start button.
C2_OneRequestOutstanding ==
  /\ Outstanding <= 1
  /\ Outstanding = 1 => loading /\ run.pc = "await" /\ <<run.ci, run.ti>> \in sweep.asked
  /\ \A p \in sweep.asked, q \in AllPairs :
       q[1] < p[1] \/ (q[1] = p[1] /\ q[2] < p[2]) => q \in sweep.asked

C2_Witness ==
  /\ Outstanding = 1 /\ run.pc = "await"
  /\ run.ci = 2 /\ run.ti = 3 /\ sweep.asked = AllPairs

\* C4: a Monte Carlo request that never gets a response still leads runCalc
\* to its failure state: summary a failure string, loading false.
RequestLost == run.pc = "await" /\ Outstanding = 0
C4_LostRequestEndsInFailure ==
  [](RequestLost => <>(run.pc = "idle" /\ summary.k = "fail" /\ ~loading))

\* C5: when a round trip fails (non-success status, rejected request,
\* malformed body) no row is reported for the sweep, and runCalc ends, with
\* the summary a failure string and loading reset.
C5_FailedRoundTripReportsFailure ==
  sweep.failed # {}
    => /\ resultRows = <<>>
       /\ run.pc = "idle" => summary.k = "fail" /\ ~loading /\ progressText = NoProgress

C5_Witness ==
  /\ RunEnded /\ summary = [k |-> "fail", msg |-> MsgTypeError]
  /\ sweep.failed = {<<1, 1, "http_err">>}

\* the weights of the selected instruments as parseWeights reads them
Supplied(id) == IsFinite(toNumber(weightsById[id]))
Selected == SeqSet(portfolioIds)
SomeSupplied == \E id \in Selected : Supplied(id)
PartialWeights == SomeSupplied /\ \E id \in Selected : ~Supplied(id)
TypedSum == SumSeq([i \in DOMAIN portfolioIds |-> toNumber(weightsById[portfolioIds[i]])])
SumNotPositive == (\A id \in Selected : Supplied(id)) /\ LeqZero(TypedSum)
PortfolioClick == StartRunCalc /\ mode = "portfolio"
SelectionChange == mode' # mode \/ portfolioIds' # portfolioIds

\* C6: a portfolio calculation started with a partially supplied weight set,
\* or with weights summing to <= 0, fails with a message; one that goes on
\* with supplied weights uses them, divided by their sum; and a change of the
\* mode or of the selection never gives a weight to an instrument that stays
\* selected and has none, once another weight was supplied.
C6_PartialWeightsNeverCompleted ==
  [][/\ PortfolioClick /\ (PartialWeights \/ SumNotPositive)
          => summary'.k = "fail" /\ summary'.msg # "" /\ ~loading'
     /\ PortfolioClick /\ loading' /\ SomeSupplied
          => \A i \in DOMAIN portfolioIds :
               FMul(sweep'.weights[i], TypedSum) = weightsById[portfolioIds[i]]
     /\ SelectionChange /\ PartialWeights
          => \A id \in Selected \cap SeqSet(portfolioIds') :
               ~Supplied(id) => ~IsFinite(toNumber(weightsById'[id]))
    ]_vars

\* C7 as stated: past weight parsing a portfolio has at least 2 instruments,
\* and its normalised weights are all strictly positive and sum to 1.
C7_WeightsPositiveSumOne ==
  sweep.weights # <<>>
    => /\ Len(sweep.ids) >= 2 /\ Len(sweep.weights) = Len(sweep.ids)
       /\ \A i \in DOMAIN sweep.weights : FLess(Zero, sweep.weights[i])
       /\ SumSeq(sweep.weights) = Num(1)

\* C7 amended: past weight parsing a portfolio has at least 2 instruments,
\* and its normalised weights are finite and sum to 1; a single weight may be
\* zero or negative.
C7_WeightsSumOne ==
  sweep.weights # <<>>
    => /\ Len(sweep.ids) >= 2 /\ Len(sweep.weights) = Len(sweep.ids)
       /\ \A i \in DOMAIN sweep.weights : IsFinite(sweep.weights[i])
       /\ SumSeq(sweep.weights) = Num(1)

C7_Witness ==
  /\ run.pc = "await" /\ run.mode = "portfolio"
  /\ sweep.weights = <<Num(2), Num(-1)>>

\* C8: with fewer than 2 usable observations the estimators give NaN and never
\* a number or an exception: latestSigmaRolling when its window holds fewer
\* than 2 finite values, the Monte Carlo handler when the pool has fewer than 2
\* values, normalVarPortfolio when fewer than 2 clean aligned rows remain.
C8_TooFewGivesNaN ==
  /\ call.fn = "latestSigmaRolling" /\ ret.k = "sigma"
       /\ Len(RollingWindow(Filter(call.r, IsFinite), call.window)) < 2
       => IsNaN(ret.sigma)
  /\ \A i \in DOMAIN wkLog :
       wkLog[i].req.task = "mcSingle" /\ Len(Handled(i).r) < 2
         => RepliedOnce(i) /\ Outcome(i).posts[1].var = VNaN
  /\ call.fn = "normalVarPortfolio" /\ ret.k = "port"
       /\ Len(CleanRows(alignedWideReturns(call.grouped, call.ids), call.ids)) < 2
       => IsNaNVar(ret.out.var)

\* C9 as stated: with a windowed standard deviation of exactly 0 the
\* closed-form VaR and the normal and Student-t Monte Carlo VaR are NaN.
C9_ZeroSigmaGivesNaN ==
  /\ call.fn = "normalVarSingle" /\ ret.k = "var" /\ ret.out.sigma = Zero
       => IsNaN(ret.out.var)
  /\ \A i \in DOMAIN wkLog :
       /\ Handled(i).method \in {"normal", "t_mc"}
       /\ Len(Handled(i).r) >= 2 /\ std(Handled(i).r) = Zero
       /\ Len(Outcome(i).posts) = 1
       => Outcome(i).posts[1].var = VNaN

\* C9 amended: with a windowed standard deviation of exactly 0 the
\* closed-form VaR is 0, and the normal and Student-t Monte Carlo VaR over at
\* least one simulated path is -T * mu, a finite number (0 for a centred pool).
C9_ZeroSigmaGivesNumber ==
  /\ call.fn = "normalVarSingle" /\ ret.k = "var" /\ ret.out.sigma = Zero
       => ret.out.var = Zero
  /\ \A i \in DOMAIN wkLog :
       /\ Handled(i).method \in {"normal", "t_mc"}
       /\ Len(Handled(i).r) >= 2 /\ std(Handled(i).r) = Zero
       /\ Handled(i).sims >= 1
       => /\ RepliedOnce(i)
          /\ Outcome(i).posts[1].var
               = <<FNeg(FMul(Num(Handled(i).T), mean(Handled(i).r))), Zero>>
          /\ Outcome(i).posts[1].sigma = Zero

C9_Witness ==
  \E i \in DOMAIN wkLog :
    /\ Handled(i).method = "t_mc"
    /\ Len(Handled(i).r) >= 2 /\ std(Handled(i).r) = Zero
    /\ Handled(i).r[1] # Zero
    /\ Handled(i).sims >= 1 /\ RepliedOnce(i)

\* C10: when the sample standard deviation is <= 0, fitTDfMLE evaluates no
\* likelihood and returns 5, and the Student-t reply carries nu = 5.
C10_FallbackDf ==
  /\ call.fn = "fitTDfMLE" /\ ret.k = "fit" /\ LeqZero(std(call.r))
       => ret.out = [df |-> 5, evals |-> 0]
  /\ \A i \in DOMAIN wkLog :
       /\ Handled(i).method = "t_mc" /\ Len(Handled(i).r) >= 2
       /\ LeqZero(std(Handled(i).r)) /\ RepliedOnce(i)
       => Outcome(i).posts[1].nu = 5 /\ "nu" \in Outcome(i).posts[1].has

C10_Witness ==
  /\ call.fn = "fitTDfMLE" /\ ret.k = "fit" /\ LeqZero(std(call.r))
  /\ call.dfMax < 5

\* sigma > 0
SigmaPositive(r) == IsFinite(std(r)) /\ std(r)[1] > 0
\* the call the worker makes: fitTDfMLE(r, 3, dfMax)
WorkerFit == call.fn = "fitTDfMLE" /\ ret.k = "fit" /\ call.dfMin = 3
BestOver(lo, hi, ll, df) ==
  /\ df \in lo..hi
  /\ \A d \in lo..hi : ll[d] <= ll[df]
  /\ \A d \in lo..hi : d < df => ll[d] < ll[df]

\* C11: for sigma > 0, fitTDfMLE(r, 3, dfMax) returns the integer nu of
\* 3..dfMax with the largest log-likelihood, the smallest such nu on a tie,
\* having evaluated every candidate; the Student-t reply carries a nu of
\* 3..dfMax.
C11_SmallestBestDf ==
  /\ WorkerFit /\ SigmaPositive(call.r)
       => /\ BestOver(3, call.dfMax, call.ll, ret.out.df)
          /\ ret.out.evals = call.dfMax - 2
  /\ \A i \in DOMAIN wkLog :
       /\ Handled(i).method = "t_mc" /\ Len(Handled(i).r) >= 2
       /\ SigmaPositive(Handled(i).r) /\ RepliedOnce(i)
       => Outcome(i).posts[1].nu \in 3..Handled(i).dfMax

C11_Witness ==
  /\ WorkerFit /\ SigmaPositive(call.r)
  /\ call.dfMax = 5 /\ call.ll[3] = 0 /\ call.ll[4] = 1 /\ call.ll[5] = 1
  /\ ret.out.df = 4

RawOf(id, d) ==
  LET Mine(r) == ValidRow(r) /\ r.id = id /\ r.date = d IN Filter(call.rows, Mine)
Preprocessed == call.fn = "preprocess" /\ ret.k = "grouped"

\* C13: after preprocessing every instrument's series has strictly
\* increasing dates, and of the valid raw rows of one instrument and one date
\* the series keeps the one that comes last in the input.
C13_IncreasingDatesLastWins ==
  Preprocessed =>
    \A id \in DOMAIN ret.out :
      LET series == ret.out[id]
      IN /\ \A i, j \in DOMAIN series : i < j => series[i].date < series[j].date
         /\ \A i \in DOMAIN series :
              LET raw == RawOf(id, series[i].date)
              IN raw # <<>> /\ series[i].price = raw[Len(raw)].price

Aligned == call.fn = "alignedWideReturns" /\ ret.k = "wide"
CommonDates ==
  {d \in 1..MaxDate : \A i \in DOMAIN call.ids : d \in DatesOf(call.grouped[call.ids[i]])}

\* C14: alignedWideReturns returns one row for each date present in every
\* selected series and no other row, in strictly ascending date order, and a
\* row carries, for every selected id, a return that id's series has on the
\* row's date.
C14_AlignedOnCommonDates ==
  Aligned =>
    /\ {ret.out[n].date : n \in DOMAIN ret.out} = CommonDates
    /\ \A m, n \in DOMAIN ret.out : m < n => ret.out[m].date < ret.out[n].date
    /\ \A n \in DOMAIN ret.out :
         /\ DOMAIN ret.out[n].v = SeqSet(call.ids)
         /\ \A id \in SeqSet(call.ids) :
              \E i \in DOMAIN call.grouped[id] :
                /\ call.grouped[id][i].date = ret.out[n].date
                /\ call.grouped[id][i].logRet = ret.out[n].v[id]

C14_Witness ==
  /\ Aligned /\ call.ids = <<"B", "A">>
  /\ DatesOf(call.grouped["A"]) = {1, 2, 3} /\ DatesOf(call.grouped["B"]) = {1, 3}
  /\ Len(ret.out) = 2 /\ ret.out[2].v["A"] = Num(-1) /\ ret.out[2].v["B"] = Num(1)

\* normalVarPortfolio got past its cleaning: ret.out.corr is corrMatrix of the
\* cleaned aligned rows (at least 2 of them, every cell finite)
CorrComputed == call.fn = "normalVarPortfolio" /\ ret.k = "port" /\ ~ret.out.early
\* -1 <= x <= 1
InUnit(x) == IsFinite(x) /\ x[1] * x[1] * x[3] <= x[2] * x[2]

\* C15: on a cleaned aligned matrix corrMatrix returns a symmetric n x n
\* matrix with diagonal entries exactly 1 and off-diagonal entries in [-1, 1].
C15_CorrMatrixShape ==
  CorrComputed =>
    LET corr == ret.out.corr
        n == Len(call.ids)
    IN /\ DOMAIN corr = 1..n
       /\ \A i \in 1..n :
            /\ DOMAIN corr[i] = 1..n
            /\ corr[i][i] = Num(1)
            /\ \A j \in 1..n : corr[i][j] = corr[j][i] /\ InUnit(corr[i][j])

\* all the weight on the first instrument, and every rolling sigma finite
SingleAssetWeights ==
  /\ CorrComputed
  /\ call.weights = [id \in {"A", "B"} |-> IF id = "A" THEN Num(1) ELSE Num(0)]
  /\ \A i \in DOMAIN ret.out.sigmas : IsFinite(ret.out.sigmas[i])

\* C16: with weight 1 on one instrument and 0 on every other, the portfolio
\* variance sigmaP2 of normalVarPortfolio is that instrument's own rolling
\* variance.
C16_SingleAssetVariance ==
  SingleAssetWeights
    => ret.out.sigmaP2 = SurdSum(<<FMul(ret.out.sigmas[1], ret.out.sigmas[1])>>)

\* the sample standard deviation of the last n values of h: not a number for
\* fewer than 2 values
SampleStdOfLast(h, n) ==
  LET last == IF n <= 0 THEN <<>> ELSE SubSeq(h, Len(h) - n + 1, Len(h))
  IN IF Len(last) < 2 THEN NaN ELSE std(last)

\* C17: latestSigmaRolling(r, w) is the sample standard deviation of the last
\* min(len, w) finite values of r: of all of them when there are fewer than
\* w, of the last w otherwise.
C17_LastMinLenWindow ==
  call.fn = "latestSigmaRolling" /\ ret.k = "sigma"
    => LET hist == Filter(call.r, IsFinite)
       IN ret.sigma = SampleStdOfLast(hist, Min(Len(hist), call.window))

\* the k-th smallest value of arr (k from 1), found by counting
OrderStat(arr, k, u) ==
  CHOOSE x \in SeqSet(arr) :
    /\ Cardinality({i \in DOMAIN arr : SimLess(arr[i], x, u)}) < k
    /\ Cardinality({i \in DOMAIN arr : ~SimLess(x, arr[i], u)}) >= k

\* the order statistics around the fractional rank (n - 1) * q, interpolated
InterpolatedQuantile(arr, q, u) ==
  LET pos == FMul(Num(Len(arr) - 1), q)
      lo == pos[1] \div pos[2]
      frac == FSub(pos, Num(lo))
  IN IF lo + 2 <= Len(arr)
       THEN SimAdd(OrderStat(arr, lo + 1, u),
                   SimScale(frac, SimSub(OrderStat(arr, lo + 2, u), OrderStat(arr, lo + 1, u))))
       ELSE OrderStat(arr, lo + 1, u)

\* C18: quantile(arr, q) on a sample of at least one value is the value
\* interpolated between the order statistics around the rank (n - 1) * q (the
\* smallest value for q = 0, the largest for q = 1), and the var each of the
\* three methods replies is minus that quantile of the simulated sums at the
\* level 1 - conf.
C18_VarIsNegatedQuantile ==
  /\ call.fn = "quantile" /\ ret.k = "quantile" /\ call.arr # <<>>
       => /\ ret.out = InterpolatedQuantile(call.arr, call.q, Zero)
          /\ call.q = Num(0) => ret.out = OrderStat(call.arr, 1, Zero)
          /\ call.q = Num(1) => ret.out = OrderStat(call.arr, Len(call.arr), Zero)
  /\ \A i \in DOMAIN wkLog :
       /\ wkLog[i].req.task = "mcSingle" /\ Handled(i).method \in Methods
       /\ Len(Handled(i).r) >= 2 /\ Handled(i).sims >= 1
       => /\ RepliedOnce(i) /\ Len(Outcome(i).Rs) = Handled(i).sims
          /\ Outcome(i).posts[1].var =
               SimValue(SimScale(Num(-1),
                                 InterpolatedQuantile(Outcome(i).Rs,
                                                      Rat(1000 - Handled(i).conf, 1000),
                                                      Outcome(i).u)),
                        Outcome(i).u)

C18_Witness ==
  \E i \in DOMAIN wkLog :
    /\ Handled(i).method = "bootstrap" /\ Handled(i).conf = 950
    /\ Outcome(i).Rs = <<<<Num(1), Zero>>, <<Num(-1), Zero>>>>
    /\ RepliedOnce(i) /\ Outcome(i).posts[1].var = <<Rat(9, 10), Zero>>

\* a bootstrap request handled with a pool of at least n values, all 0, and at
\* least one simulation
ZeroPoolBootstrap(i, n) ==
  /\ wkLog[i].req.task = "mcSingle" /\ Handled(i).method = "bootstrap"
  /\ Len(Handled(i).r) >= n /\ \A j \in DOMAIN Handled(i).r : Handled(i).r[j] = Zero
  /\ Handled(i).sims >= 1

RepliedZero(i) == RepliedOnce(i) /\ Outcome(i).posts[1].var = <<Zero, Zero>>

\* C19: the bootstrap method on a pool whose every value is 0 replies var = 0,
\* for every horizon, every number of simulations >= 1 and every draw.
C19_ZeroPoolZeroVar ==
  \A i \in DOMAIN wkLog : ZeroPoolBootstrap(i, 1) => RepliedZero(i)

\* C19 as the handler has it: on a pool of at least two values, all 0.
C19_ZeroPoolOfTwoZeroVar ==
  \A i \in DOMAIN wkLog : ZeroPoolBootstrap(i, 2) => RepliedZero(i)

C19_Witness ==
  \E i \in DOMAIN wkLog :
    /\ ZeroPoolBootstrap(i, 2) /\ Handled(i).sims = 2 /\ Handled(i).T = MaxT
    /\ RepliedZero(i)

\* the sign of a posted var <<a, s>>, the number a + s
PostedSign(v) == SimSign(<<v[1], <<v[2][1], v[2][2], 1>>>>, <<1, 1, v[2][3]>>)

\* a request of one of the three methods that was answered with a var that is
\* a number
NumberReplied(i) ==
  /\ wkLog[i].req.task = "mcSingle" /\ Handled(i).method \in Methods
  /\ RepliedOnce(i) /\ Outcome(i).posts[1].var # VNaN

\* C20: every var the Monte Carlo handler replies that is not NaN is a
\* positive number, for every pool, confidence, horizon and method.
C20_VarPositive ==
  \A i \in DOMAIN wkLog : NumberReplied(i) => PostedSign(Outcome(i).posts[1].var) > 0

\* C20 as the handler has it: a var that is not NaN has the sign opposite to
\* the quantile of the simulated sums at the level 1 - conf; the bootstrap
\* method replies a var <= 0 on a pool with no loss, and a var < 0 on a pool
\* of gains only.
C20_VarSignOpposesQuantile ==
  \A i \in DOMAIN wkLog :
    NumberReplied(i) =>
      LET v == Outcome(i).posts[1].var
          p == Handled(i).r
          qt == InterpolatedQuantile(Outcome(i).Rs, Rat(1000 - Handled(i).conf, 1000),
                                     Outcome(i).u)
      IN /\ Outcome(i).Rs # <<>>
         /\ PostedSign(v) = 0 - SimSign(qt, Outcome(i).u)
         /\ Handled(i).method = "bootstrap" /\ (\A j \in DOMAIN p : ~FLess(p[j], Zero))
              => PostedSign(v) <= 0
         /\ Handled(i).method = "bootstrap" /\ (\A j \in DOMAIN p : FLess(Zero, p[j]))
              => PostedSign(v) < 0

C20_Witness ==
  \E i \in DOMAIN wkLog :
    /\ NumberReplied(i) /\ Handled(i).method = "bootstrap"
    /\ Handled(i).r = <<Num(1), Num(1)>> /\ Handled(i).T = 1
    /\ Outcome(i).posts[1].var = <<Num(-1), Zero>>

\* |x| for a double, and |x| <= t
FAbs(x) == IF x[1] < 0 THEN FNeg(x) ELSE x
Within(x, t) == IsFinite(x) /\ ~FLess(t, FAbs(x))

Tolerance == Rat(1, 10000)

\* C21: zFromConf(1 - c) is -zFromConf(c) within 1e-4, for every confidence c,
\* 0.95 and 0.99 included.
C21_ZAntisymmetric ==
  call.fn = "zFromConf" /\ ret.k = "z" => Within(FAdd(ret.out, ret.mirror), Tolerance)

\* C21 holds at every confidence of the grid that is not one of the two
\* constants or the mirror image of one.
C21_AntisymmetricOffConstants ==
  call.fn = "zFromConf" /\ ret.k = "z" /\ call.conf \notin {10, 50, 950, 990}
    => ret.mirror = FNeg(ret.out)

C23_SqrtOfHorizon ==
  call.fn = "normalVarSingle" /\ ret.k = "var"
    => LET sigma == latestSigmaRolling(call.r, call.window)
           z == zFromConf(call.conf)
           one == normalVarSingle(call.r, call.conf, 1, call.window)
       IN /\ ret.out.sigma = sigma /\ ret.out.z = z
          /\ call.window >= 1 =>
               sigma = SampleStdOfLast(Filter(call.r, IsFinite),
                                       Min(Len(Filter(call.r, IsFinite)), call.window))
          /\ ret.out.var = IF IsFinite(sigma) THEN FMul(FMul(z, sigma), FSqrt(Num(call.T)))
                                               ELSE NaN
          /\ ret.out.var = FMul(FSqrt(Num(call.T)), one.var)

C23_Witness ==
  /\ call.fn = "normalVarSingle" /\ ret.k = "var"
  /\ call.r = <<Num(-1), Num(1)>> /\ call.T = 2 /\ call.conf = 950 /\ call.window = 2
  /\ ret.out.var = Rat(329, 100)

\* the step in which a runCalc ends with its results published
Completes == run.pc = "await" /\ run' = NoRun /\ summary'.k = "report"

\* C24: when a runCalc completes successfully, lastCalcMode is the mode in
\* which it ran.
C24_LastCalcModeIsRunMode == [][Completes => lastCalcMode' = run.mode]_vars

\* C24 in the worker build, and for single-instrument runs in both builds
C24_WorkerBuildOrSingle ==
  [][Completes /\ (cfg.build = "worker" \/ run.mode = "single")
       => lastCalcMode' = run.mode]_vars

\* the place of the pair (ci, ti) in the order (c1,T1), (c1,T2), ..., (c2,T3)
PairIndex(ci, ti) == (ci - 1) * Len(Ts) + ti

\* the step in which runCalc reaches an await of callWorkerSingle
Issues ==
  /\ run'.pc = "await"
  /\ run.pc = "await" => <<run'.ci, run'.ti>> # <<run.ci, run.ti>>

\* C25: runCalc issues its requests one at a time in the order (c1,T1),
\* (c1,T2), (c1,T3), (c2,T1), (c2,T2), (c2,T3), each carrying its confidence
\* and horizon, the value of each answer taking the place of its horizon; a
\* runCalc that completes has issued all six and publishes four rows, the
\* closed-form rows of c1 and c2 and then the Monte Carlo rows of c1 and c2,
\* each with one value per horizon.
C25_SixRequestsFourRows ==
  [][/\ Issues =>
          /\ PairIndex(run'.ci, run'.ti)
               = IF run.pc = "await" THEN PairIndex(run.ci, run.ti) + 1 ELSE 1
          /\ Len(run'.vList) = run'.ti - 1
          /\ Len(wkInbox') + Len(net') = 1
          /\ LET q == IF cfg.build = "worker" THEN wkInbox'[1] ELSE net'[1]
             IN /\ q.task = "mcSingle" /\ q.payload.r = run'.pool
                /\ q.payload.conf = confs[run'.ci] /\ q.payload.T = Ts[run'.ti]
     /\ ~Issues /\ wkInbox' \o net' # wkInbox \o net => wkInbox' \o net' = <<>>
     /\ Completes =>
          /\ PairIndex(run.ci, run.ti) = Len(confs) * Len(Ts)
          /\ sweep'.asked = AllPairs
          /\ Len(resultRows') = 2 * Len(confs)
          /\ \A ci \in DOMAIN confs :
               /\ resultRows'[ci].method = "normal"
               /\ resultRows'[ci] = run.rows[ci]
               /\ resultRows'[Len(confs) + ci].method = "mc"
               /\ \A k \in {ci, Len(confs) + ci} :
                    /\ resultRows'[k].conf = confs[ci]
                    /\ DOMAIN resultRows'[k].v = DOMAIN Ts
     ]_vars

C25_Witness ==
  /\ summary.k = "report" /\ ~loading /\ Len(resultRows) = 4
  /\ sweep.asked = AllPairs /\ Len(sweep.ids) >= 2
  /\ resultRows[3].method = "mc" /\ resultRows[3].v = [ti \in DOMAIN Ts |-> "pct"]

\* runCalc is suspended at the await of the pair p
AwaitAt(p) == run.pc = "await" /\ <<run.ci, run.ti>> = p

\* every issued request eventually receives a response: runCalc does not
\* stay at the await of any pair for ever
EveryRequestAnswered == \A p \in AllPairs : []<>(~AwaitAt(p))

\* C26: loading is true exactly while a runCalc is under way; once it has
\* ended, with results or with a failure, loading is false and the progress
\* text is empty; and if every issued request eventually receives a response,
\* every started runCalc eventually ends.
C26_LoadingUntilEnd ==
  /\ [](loading <=> run.pc = "await")
  /\ [](~loading => progressText = NoProgress)
  /\ [](run.pc = "idle" /\ summary # NoSummary => summary.k \in {"report", "fail"})
  /\ EveryRequestAnswered => (loading ~> RunEnded)

C26_Witness ==
  /\ RunEnded /\ summary.k = "report" /\ progressText = NoProgress
  /\ sweep.asked = AllPairs /\ cfg.build = "http" /\ Len(sweep.ids) >= 2

\* C26 without its proviso: every started runCalc eventually ends
C26_AlwaysEnds == loading ~> RunEnded

\* the largest and the smallest value of a pool
MaxOf(r) == CHOOSE x \in SeqSet(r) : \A y \in SeqSet(r) : ~FLess(x, y)
MinOf(r) == CHOOSE x \in SeqSet(r) : \A y \in SeqSet(r) : ~FLess(y, x)

\* x is the sum of exactly T values of the pool r, each at an index of r
SumOfDraws(x, r, T) == \E idx \in [1..T -> DOMAIN r] : x = SumSeq([t \in 1..T |-> r[idx[t]]])

\* the bootstrap branch handled a request with at least n simulations
BootstrapRun(i, n) ==
  /\ wkLog[i].req.task = "mcSingle" /\ Handled(i).method = "bootstrap"
  /\ Len(Handled(i).r) >= 2 /\ Handled(i).sims >= n

\* every simulated sum is a sum of T draws from the pool, and the var
\* replied lies between -T * max(r) and -T * min(r)
DrawsAndBounds(i) ==
  LET p == Handled(i)
      v == Outcome(i).posts[1].var
  IN /\ RepliedOnce(i) /\ Len(Outcome(i).Rs) = p.sims /\ Outcome(i).u = Zero
     /\ \A k \in DOMAIN Outcome(i).Rs :
          Outcome(i).Rs[k][2] = Zero /\ SumOfDraws(Outcome(i).Rs[k][1], p.r, p.T)
     /\ v # VNaN /\ v[2] = Zero
     /\ ~FLess(v[1], FMul(Num(-p.T), MaxOf(p.r)))
     /\ ~FLess(FMul(Num(-p.T), MinOf(p.r)), v[1])

\* C27: in bootstrap mode every simulated sum is the sum of exactly T values
\* read from the pool at an index within it, and the var returned always
\* satisfies -T * max(r) <= var <= -T * min(r).
C27_BootstrapWithinPool ==
  \A i \in DOMAIN wkLog : BootstrapRun(i, 0) => DrawsAndBounds(i)

\* C27 as the handler has it: for at least one simulation.
C27_BootstrapWithinPoolSimulated ==
  \A i \in DOMAIN wkLog : BootstrapRun(i, 1) => DrawsAndBounds(i)

C27_Witness ==
  \E i \in DOMAIN wkLog :
    /\ BootstrapRun(i, 2) /\ Handled(i).r = <<Num(-1), Num(1)>> /\ Handled(i).T = 2
    /\ Outcome(i).Rs = <<<<Num(-2), Zero>>, <<Num(-2), Zero>>>>
    /\ RepliedOnce(i) /\ Outcome(i).posts[1].var = <<Num(2), Zero>>

\* the Student-t branch handled a request and replied
StudentTReplied(i) ==
  /\ wkLog[i].req.task = "mcSingle" /\ Handled(i).method = "t_mc"
  /\ Len(Handled(i).r) >= 2 /\ RepliedOnce(i)

\* C28: the nu the Student-t method reports (and simulates with) is an
\* integer with 3 <= nu <= dfMax, for every pool of at least 2 returns and
\* every requested dfMax.
C28_NuWithinRange ==
  \A i \in DOMAIN wkLog :
    StudentTReplied(i) => Outcome(i).posts[1].nu \in 3..Handled(i).dfMax

\* C28 holds for every pool whose standard deviation is positive.
C28_NuWithinRangeFitted ==
  \A i \in DOMAIN wkLog :
    StudentTReplied(i) /\ SigmaPositive(Handled(i).r)
      => Outcome(i).posts[1].nu \in 3..Handled(i).dfMax

\* C29: for a series with at least 2 finite returns and a window >= 1, the
\* sigma_w of the Monte Carlo pool (meanStd of rMC) is the sigma_latest of
\* latestSigmaRolling, both the sample standard deviation of the last
\* min(len, window) returns or both NaN, and centering the pool leaves it
\* unchanged: the worker's std of the centred pool is the same number, and the
\* centred pool has mean 0.
C29_SameWindowSameSigma ==
  call.fn = "latestSigmaRolling" /\ ret.k = "sigma"
  /\ Len(Filter(call.r, IsFinite)) >= 2 /\ call.window >= 1
    => LET rAll == Filter(call.r, IsFinite)
           pool == rMC(rAll, call.window)
           rMC0 == [i \in DOMAIN pool |-> FSub(pool[i], meanStd(pool).mu)]
       IN /\ Len(pool) = Min(Len(rAll), call.window)
          /\ meanStd(pool).sigma = ret.sigma
          /\ ret.sigma = SampleStdOfLast(rAll, Len(pool))
          /\ std(rMC0) = ret.sigma /\ meanStd(rMC0).sigma = ret.sigma
          /\ mean(rMC0) = Zero

C29_Witness ==
  /\ call.fn = "latestSigmaRolling" /\ ret.k = "sigma"
  /\ call.r = <<Num(-1), Num(0), Num(1)>> /\ call.window = 2
  /\ ret.sigma = meanStd(rMC(call.r, 2)).sigma /\ ret.sigma = FSqrt(Rat(1, 2))

\* the set of selected instruments changes while the mode stays portfolio
SelectedSetChanges ==
  /\ mode = "portfolio" /\ mode' = "portfolio"
  /\ SeqSet(portfolioIds') # Selected

\* C30: in portfolio mode, when the set of selected instruments changes,
\* every newly selected instrument gets the weight 1, the entry of every
\* deselected instrument is removed, and a finite weight entered for an
\* instrument that stays selected is left as it is.
C30_WeightsFollowSelection ==
  [][SelectedSetChanges =>
       \A id \in Ids :
         /\ id \in SeqSet(portfolioIds') \ Selected => weightsById'[id] = Num(1)
         /\ id \notin SeqSet(portfolioIds') => weightsById'[id] = Missing
         /\ id \in SeqSet(portfolioIds') \cap Selected /\ IsFinite(weightsById[id])
              => weightsById'[id] = weightsById[id]
    ]_vars

C30_Witness ==
  /\ mode = "portfolio" /\ portfolioIds = <<"A", "B">>
  /\ weightsById["A"] = Num(2) /\ weightsById["B"] = Num(1)
  /\ \A id \in Ids \ {"A", "B"} : weightsById[id] = Missing

====
